---- MODULE Spec2Model ----
(***************************************************************************)
(* Model of the Sled key extractor (rust-key-extractor/src/main.rs): one   *)
(* run of main, in fault-tolerant mode (--skip-errors, direct walk of the  *)
(* sled tree) or in strict mode (through SledCryptoStore), followed by the *)
(* writes of the failed-sessions file and of the output file.              *)
(***************************************************************************)
EXTENDS Integers, Sequences, FiniteSets, TLC

VARIABLES
    skip_errors,          \* Args.skip_errors
    passphrase,           \* Args.passphrase : Option<String>
    store_pass,           \* passphrase the "store_cipher" blob was sealed with; None: no blob
    tree,                 \* the inbound group sessions tree: key number -> entry
    pc,                   \* position of the run in main
    effective_passphrase, \* Option: unset until extract_keys_* computes it
    store_cipher,         \* Option<StoreCipher> after load_store_cipher
    total_entries,        \* sessions_tree.len()
    index,                \* position of the walk (enumerate)
    exported_keys,        \* Vec<ExportedRoomKey>
    failed_sessions,      \* Vec<FailedSession>
    success_count,
    fail_count,
    failed_count,         \* main: failed_count
    failed_file,          \* Option: contents of the failed sessions file written by the run
    output,               \* Option<ExtractionOutput> built by organize_keys
    output_file,          \* Option: contents of the output file written by the run
    sessions,             \* strict mode: Vec<InboundGroupSession> the store returned
    error,                \* Option: context of the error main returned
    exit_code             \* Option: process exit status

vars == <<skip_errors, passphrase, store_pass, tree, pc, effective_passphrase,
          store_cipher, total_entries, index, exported_keys, failed_sessions,
          success_count, fail_count, failed_count, failed_file, output,
          output_file, sessions, error, exit_code>>

----------------------------------------------------------------------------
(* Bounds *)

\* number of distinct keys the sessions tree may hold
NumKeys == 3

\* longest key sequence handed to organize_keys on its own
MaxKeys == 3

----------------------------------------------------------------------------
(* Values *)

None == <<>>
Some(x) == <<x>>
IsSome(o) == o # <<>>
Unwrap(o) == o[1]


\* an absent passphrase kept apart from every given one
UnwrapOr_KeepsAbsent(o, d) == IF o = None THEN "<absent>" ELSE o[1]

\* Option<&str>::unwrap_or
UnwrapOr(o, d) == IF o = None THEN d ELSE o[1]

Passphrases == {"", "pw"}

\* OwnedRoomId values; to_string gives the textual room id
Rooms == {[localpart |-> "a", server_name |-> "x.org"],
          [localpart |-> "b", server_name |-> "x.org"]}

RoomIdToString(r) == "!" \o r.localpart \o ":" \o r.server_name

KeySpace == 0 .. (NumKeys - 1)

\* raw sled key of key number k; sled iterates in the order of these bytes
RawKey(k) == <<k, 175 + k>>

HexDigits == <<"0", "1", "2", "3", "4", "5", "6", "7",
               "8", "9", "a", "b", "c", "d", "e", "f">>

\* hex::encode
RECURSIVE HexEncode(_)
HexEncode(bytes) ==
    IF bytes = <<>> THEN ""
    ELSE HexDigits[(bytes[1] \div 16) + 1] \o HexDigits[(bytes[1] % 16) + 1]
         \o HexEncode(Tail(bytes))

\* room of the entries that never export a key
AnyRoom == CHOOSE r \in Rooms : r.localpart = "a"

\* What a tree slot can hold.  read_ok = FALSE: the sled iterator yields Err
\* for the slot.  enc: how the value bytes are encoded ("json" plain, "enc"
\* sealed by the store cipher, "garbage" neither).  pickle_ok: whether
\* InboundGroupSession::from_pickle accepts the decoded pickle.
Contents(enc) ==
    {[read_ok |-> FALSE, enc |-> enc, pickle_ok |-> FALSE, room_id |-> AnyRoom],
     [read_ok |-> TRUE, enc |-> "garbage", pickle_ok |-> FALSE, room_id |-> AnyRoom],
     [read_ok |-> TRUE, enc |-> enc, pickle_ok |-> FALSE, room_id |-> AnyRoom]}
    \cup {[read_ok |-> TRUE, enc |-> enc, pickle_ok |-> TRUE, room_id |-> r] :
             r \in Rooms}

\* the trees a store whose values are encoded as enc can hold
Trees(enc) == UNION {[S -> Contents(enc)] : S \in SUBSET KeySpace}

\* sessions_tree.iter(): the items in key order, as Result<(key, value)>
RECURSIVE IterFrom(_, _)
IterFrom(t, k) ==
    IF k >= NumKeys THEN <<>>
    ELSE IF k \in DOMAIN t
         THEN <<[key |-> RawKey(k), num |-> k, item |-> t[k]]>> \o IterFrom(t, k + 1)
         ELSE IterFrom(t, k + 1)

TreeIter(t) == IterFrom(t, 0)

\* sessions_tree.len()
TreeLen(t) == Cardinality(DOMAIN t)

----------------------------------------------------------------------------
(* Pure functions of main.rs *)

\* StoreCipher::import(passphrase, blob): Ok exactly for the sealing passphrase
CipherImportOk(pass, sealed_with) == pass = sealed_with

\* deserialize_value: decrypt_value when a cipher is given, serde_json otherwise
DeserializeOk(item, cipher) ==
    IF IsSome(cipher) THEN item.enc = "enc" ELSE item.enc = "json"

\* InboundGroupSession::from_pickle
FromPickleOk(item) == item.pickle_ok

\* session.export(): the ExportedRoomKey of the session stored under key number k
Export(e) == [room_id |-> e.item.room_id, session_id |-> e.num]

\* convert_exported_key
convert_exported_key(key) ==
    [room_id |-> RoomIdToString(key.room_id), session_id |-> key.session_id]


\* the loop body with insert in place of entry().or_insert_with().push()
OrganizeStep_Overwrites(acc, key) ==
    LET room_id == RoomIdToString(key.room_id)
        exported_data == convert_exported_key(key)
    IN  [keys_by_room |->
            IF room_id \in DOMAIN acc.keys_by_room
            THEN [acc.keys_by_room EXCEPT ![room_id] = <<exported_data>>]
            ELSE acc.keys_by_room @@ (room_id :> <<exported_data>>),
         all_keys |-> Append(acc.all_keys, exported_data)]

\* one turn of the loop of organize_keys: entry(room_id).or_insert_with(Vec::new).push
OrganizeStep(acc, key) ==
    LET room_id == RoomIdToString(key.room_id)
        exported_data == convert_exported_key(key)
    IN  [keys_by_room |->
            IF room_id \in DOMAIN acc.keys_by_room
            THEN [acc.keys_by_room EXCEPT ![room_id] = Append(@, exported_data)]
            ELSE acc.keys_by_room @@ (room_id :> <<exported_data>>),
         all_keys |-> Append(acc.all_keys, exported_data)]

EmptyMap == [r \in {} |-> <<>>]

RECURSIVE OrganizeLoop(_, _)
OrganizeLoop(keys, acc) ==
    IF keys = <<>> THEN acc
    ELSE OrganizeLoop(Tail(keys), OrganizeStep(acc, Head(keys)))

organize_keys(keys, failed) ==
    LET acc == OrganizeLoop(keys, [keys_by_room |-> EmptyMap, all_keys |-> <<>>])
    IN  [version |-> 1,
         total_keys |-> Len(acc.all_keys),
         failed_keys |-> failed,
         keys_by_room |-> acc.keys_by_room,
         all_keys |-> acc.all_keys]

\* FailedSession
FailedSession(i, key_hex, err) == [index |-> i, key_hex |-> key_hex, error |-> err]

\* FailedSessionsOutput
FailedSessionsOutput(n, failed) == [total_failed |-> n, sessions |-> failed]


\* the loop body with positions counted from 1
WalkOutcome_OneBased(i, e, cipher) ==
    IF ~e.item.read_ok
    THEN [ok |-> FALSE,
          failure |-> FailedSession(i + 1, "<read error>", "Sled read error")]
    ELSE IF ~DeserializeOk(e.item, cipher)
    THEN [ok |-> FALSE,
          failure |-> FailedSession(i + 1, HexEncode(e.key), "Deserialization failed")]
    ELSE IF ~FromPickleOk(e.item)
    THEN [ok |-> FALSE,
          failure |-> FailedSession(i + 1, HexEncode(e.key),
                                    "Pickle reconstruction failed")]
    ELSE [ok |-> TRUE, exported |-> Export(e)]


\* the loop body with the sentinel in place of the hex key of an undecodable entry
WalkOutcome_SentinelOnDecode(i, e, cipher) ==
    IF ~e.item.read_ok
    THEN [ok |-> FALSE,
          failure |-> FailedSession(i, "<read error>", "Sled read error")]
    ELSE IF ~DeserializeOk(e.item, cipher)
    THEN [ok |-> FALSE,
          failure |-> FailedSession(i, "<read error>", "Deserialization failed")]
    ELSE IF ~FromPickleOk(e.item)
    THEN [ok |-> FALSE,
          failure |-> FailedSession(i, HexEncode(e.key), "Pickle reconstruction failed")]
    ELSE [ok |-> TRUE, exported |-> Export(e)]

\* body of the loop of extract_keys_fault_tolerant for the item e at position i
WalkOutcome(i, e, cipher) ==
    IF ~e.item.read_ok
    THEN [ok |-> FALSE,
          failure |-> FailedSession(i, "<read error>", "Sled read error")]
    ELSE IF ~DeserializeOk(e.item, cipher)
    THEN [ok |-> FALSE,
          failure |-> FailedSession(i, HexEncode(e.key), "Deserialization failed")]
    ELSE IF ~FromPickleOk(e.item)
    THEN [ok |-> FALSE,
          failure |-> FailedSession(i, HexEncode(e.key), "Pickle reconstruction failed")]
    ELSE [ok |-> TRUE, exported |-> Export(e)]

----------------------------------------------------------------------------
(* The run *)

Options(S) == {None} \cup {Some(x) : x \in S}

Start(keys, failed, at) ==
    /\ pc = at
    /\ effective_passphrase = None
    /\ store_cipher = None
    /\ total_entries = 0
    /\ index = 0
    /\ exported_keys = keys
    /\ failed_sessions = <<>>
    /\ success_count = 0
    /\ fail_count = 0
    /\ failed_count = failed
    /\ failed_file = None
    /\ output = None
    /\ output_file = None
    /\ sessions = <<>>
    /\ error = None
    /\ exit_code = None

\* a run of main on any store, in either mode, with any passphrase argument
Init ==
    /\ skip_errors \in BOOLEAN
    /\ passphrase \in Options(Passphrases)
    /\ store_pass \in Options(Passphrases)
    /\ tree \in Trees(IF store_pass = None THEN "json" ELSE "enc")
    /\ Start(<<>>, 0, "check_path")

args == <<skip_errors, passphrase, store_pass, tree>>
walk == <<total_entries, index, exported_keys, failed_sessions, success_count,
          fail_count, sessions>>
files == <<failed_file, output, output_file>>

\* main returns Err out of the extraction (lines 402, 410, 438)
Abort(msg) ==
    /\ pc' = "aborted"
    /\ error' = Some(msg)
    /\ exit_code' = Some(1)

\* main returns Err out of a serialisation or a write (lines 428, 431, 451, 454)
IoFail(msg) ==
    /\ pc' = "io_failed"
    /\ error' = Some(msg)
    /\ exit_code' = Some(1)

Continue(to) ==
    /\ pc' = to
    /\ UNCHANGED <<error, exit_code>>

\* main: if !args.sled_path.exists() { bail }
CheckPath ==
    /\ pc = "check_path"
    /\ \E exists \in BOOLEAN :
         IF exists
         THEN Continue(IF skip_errors THEN "ft_open_db" ELSE "st_open_db")
         ELSE Abort("Sled store path does not exist")
    /\ UNCHANGED <<args, effective_passphrase, store_cipher, walk, failed_count, files>>

\* extract_keys_fault_tolerant: effective_passphrase, sled::Config::open
FtOpenDb ==
    /\ pc = "ft_open_db"
    /\ effective_passphrase' = Some(UnwrapOr(passphrase, ""))
    /\ \E opened \in BOOLEAN :
         IF opened
         THEN Continue("ft_load_cipher")
         ELSE Abort("Failed to open sled database")
    /\ UNCHANGED <<args, store_cipher, walk, failed_count, files>>


\* load_store_cipher falling back to no cipher when the import fails
FtLoadCipher_IgnoresImportError ==
    /\ pc = "ft_load_cipher"
    /\ \E got \in BOOLEAN :
         IF ~got
         THEN Abort("sled get failed") /\ UNCHANGED store_cipher
         ELSE IF IsSome(store_pass)
                 /\ CipherImportOk(Unwrap(effective_passphrase), Unwrap(store_pass))
         THEN Continue("ft_open_tree") /\ store_cipher' = Some("cipher")
         ELSE Continue("ft_open_tree") /\ store_cipher' = None
    /\ UNCHANGED <<args, effective_passphrase, walk, failed_count, files>>

\* load_store_cipher
FtLoadCipher ==
    /\ pc = "ft_load_cipher"
    /\ \E got \in BOOLEAN :
         IF ~got
         THEN Abort("sled get failed") /\ UNCHANGED store_cipher
         ELSE IF IsSome(store_pass)
         THEN IF CipherImportOk(Unwrap(effective_passphrase), Unwrap(store_pass))
              THEN Continue("ft_open_tree") /\ store_cipher' = Some("cipher")
              ELSE Abort("Failed to import store cipher - wrong passphrase?")
                   /\ UNCHANGED store_cipher
         ELSE Continue("ft_open_tree") /\ store_cipher' = None
    /\ UNCHANGED <<args, effective_passphrase, walk, failed_count, files>>

\* db.open_tree, sessions_tree.len(), the empty accumulators
FtOpenTree ==
    /\ pc = "ft_open_tree"
    /\ \E opened \in BOOLEAN :
         IF opened
         THEN /\ Continue("ft_walk")
              /\ total_entries' = TreeLen(tree)
              /\ exported_keys' = <<>>
              /\ failed_sessions' = <<>>
              /\ success_count' = 0
              /\ fail_count' = 0
              /\ index' = 0
         ELSE /\ Abort("Failed to open inbound group sessions tree")
              /\ UNCHANGED <<total_entries, exported_keys, failed_sessions,
                             success_count, fail_count, index>>
    /\ UNCHANGED <<args, effective_passphrase, store_cipher, sessions,
                   failed_count, files>>


\* the walk with a read error propagated (item?) instead of recorded
FtWalkEntry_PropagatesReadError ==
    /\ pc = "ft_walk"
    /\ index < Len(TreeIter(tree))
    /\ LET r == WalkOutcome(index, TreeIter(tree)[index + 1], store_cipher)
       IN  IF r.ok
           THEN /\ exported_keys' = Append(exported_keys, r.exported)
                /\ success_count' = success_count + 1
                /\ index' = index + 1
                /\ UNCHANGED <<failed_sessions, fail_count, pc, error, exit_code>>
           ELSE IF r.failure.key_hex = "<read error>"
           THEN /\ Abort("Sled read error")
                /\ UNCHANGED <<exported_keys, success_count, failed_sessions,
                               fail_count, index>>
           ELSE /\ failed_sessions' = Append(failed_sessions, r.failure)
                /\ fail_count' = fail_count + 1
                /\ index' = index + 1
                /\ UNCHANGED <<exported_keys, success_count, pc, error, exit_code>>
    /\ UNCHANGED <<args, effective_passphrase, store_cipher, total_entries,
                   sessions, failed_count, files>>

\* the walk with a read error skipped instead of recorded
FtWalkEntry_DropsReadError ==
    /\ pc = "ft_walk"
    /\ index < Len(TreeIter(tree))
    /\ LET r == WalkOutcome(index, TreeIter(tree)[index + 1], store_cipher)
       IN  IF r.ok
           THEN /\ exported_keys' = Append(exported_keys, r.exported)
                /\ success_count' = success_count + 1
                /\ UNCHANGED <<failed_sessions, fail_count>>
           ELSE IF r.failure.key_hex = "<read error>"
           THEN UNCHANGED <<exported_keys, success_count, failed_sessions, fail_count>>
           ELSE /\ failed_sessions' = Append(failed_sessions, r.failure)
                /\ fail_count' = fail_count + 1
                /\ UNCHANGED <<exported_keys, success_count>>
    /\ index' = index + 1
    /\ UNCHANGED <<args, pc, effective_passphrase, store_cipher, total_entries,
                   sessions, failed_count, files, error, exit_code>>

\* one turn of: for (index, item) in sessions_tree.iter().enumerate()
FtWalkEntry ==
    /\ pc = "ft_walk"
    /\ index < Len(TreeIter(tree))
    /\ LET r == WalkOutcome(index, TreeIter(tree)[index + 1], store_cipher)
       IN  IF r.ok
           THEN /\ exported_keys' = Append(exported_keys, r.exported)
                /\ success_count' = success_count + 1
                /\ UNCHANGED <<failed_sessions, fail_count>>
           ELSE /\ failed_sessions' = Append(failed_sessions, r.failure)
                /\ fail_count' = fail_count + 1
                /\ UNCHANGED <<exported_keys, success_count>>
    /\ index' = index + 1
    /\ UNCHANGED <<args, pc, effective_passphrase, store_cipher, total_entries,
                   sessions, failed_count, files, error, exit_code>>

\* the iterator is exhausted: Ok((exported_keys, failed_sessions)); main takes
\* failed_count = failed_sessions.len()
FtReturn ==
    /\ pc = "ft_walk"
    /\ index = Len(TreeIter(tree))
    /\ failed_count' = Len(failed_sessions)
    /\ Continue("failed_doc")
    /\ UNCHANGED <<args, effective_passphrase, store_cipher, walk, files>>

\* extract_keys_strict: effective_passphrase, sled::Config::open
StOpenDb ==
    /\ pc = "st_open_db"
    /\ effective_passphrase' = Some(UnwrapOr(passphrase, ""))
    /\ \E opened \in BOOLEAN :
         IF opened
         THEN Continue("st_open_store")
         ELSE Abort("Failed to open sled database")
    /\ UNCHANGED <<args, store_cipher, walk, failed_count, files>>

\* SledCryptoStore::open_with_database(db, Some(passphrase)) of matrix-sdk-sled:
\* a store that holds a cipher blob opens only with the passphrase that sealed it
OpenWithDatabaseOk(pass, sealed_with) ==
    sealed_with = None \/ CipherImportOk(pass, Unwrap(sealed_with))

\* SledCryptoStore::open_with_database and the diagnostics, which only log
StOpenStore ==
    /\ pc = "st_open_store"
    /\ \E opened \in BOOLEAN :
         IF opened /\ OpenWithDatabaseOk(Unwrap(effective_passphrase), store_pass)
         THEN /\ Continue("st_get_sessions")
              /\ store_cipher' = IF IsSome(store_pass) THEN Some("cipher") ELSE None
         ELSE /\ Abort("Failed to open Sled crypto store")
              /\ UNCHANGED store_cipher
    /\ UNCHANGED <<args, effective_passphrase, walk, failed_count, files>>

\* CryptoStore::get_inbound_group_sessions of matrix-sdk-sled, the validated
\* accessor: the results it can give on the items its walk yields.  An item that
\* cannot be read or decoded fails the call.  A pickle that does not reconstruct
\* either fails the call or is left out of the result: the accessor "may skip or
\* fail differently on malformed entries" than the raw walk.
get_inbound_group_sessions(items, cipher) ==
    LET Broken(e) == ~e.item.read_ok \/ ~DeserializeOk(e.item, cipher)
        Sound(e) == FromPickleOk(e.item)
    IN  IF \E i \in 1 .. Len(items) : Broken(items[i])
        THEN {[ok |-> FALSE, sessions |-> <<>>]}
        ELSE {[ok |-> TRUE, sessions |-> SelectSeq(items, Sound)]}
             \cup {[ok |-> FALSE, sessions |-> <<>>] :
                     i \in {j \in 1 .. Len(items) : ~Sound(items[j])}}

\* store.get_inbound_group_sessions().await.context(..)?
StGetSessions ==
    /\ pc = "st_get_sessions"
    /\ \E r \in get_inbound_group_sessions(TreeIter(tree), store_cipher) :
         IF r.ok
         THEN /\ Continue("st_export")
              /\ sessions' = r.sessions
              /\ exported_keys' = <<>>
              /\ index' = 0
         ELSE /\ Abort("Failed to retrieve inbound group sessions")
              /\ UNCHANGED <<sessions, exported_keys, index>>
    /\ UNCHANGED <<args, effective_passphrase, store_cipher, total_entries,
                   failed_sessions, success_count, fail_count, failed_count, files>>

\* one turn of: for session in sessions.iter()
StExportSession ==
    /\ pc = "st_export"
    /\ index < Len(sessions)
    /\ exported_keys' = Append(exported_keys, Export(sessions[index + 1]))
    /\ index' = index + 1
    /\ UNCHANGED <<args, pc, effective_passphrase, store_cipher, total_entries,
                   failed_sessions, success_count, fail_count, sessions,
                   failed_count, files, error, exit_code>>

\* Ok(exported_keys); main takes (keys, 0)
StReturn ==
    /\ pc = "st_export"
    /\ index = Len(sessions)
    /\ failed_count' = 0
    /\ Continue("organize")
    /\ UNCHANGED <<args, effective_passphrase, store_cipher, walk, files>>


\* the failed sessions file written on every fault-tolerant run
WritesFailedDoc_Always(failed) == TRUE

\* main: if !failed_sessions.is_empty()
WritesFailedDoc(failed) == failed # <<>>


\* the failed sessions file with a failed write logged and the run going on
WriteFailedDoc_GoesOn ==
    /\ pc = "failed_doc"
    /\ IF WritesFailedDoc(failed_sessions)
       THEN \E written \in BOOLEAN :
              /\ Continue("organize")
              /\ failed_file' =
                   IF written
                   THEN Some(FailedSessionsOutput(failed_count, failed_sessions))
                   ELSE failed_file
       ELSE Continue("organize") /\ UNCHANGED failed_file
    /\ UNCHANGED <<args, effective_passphrase, store_cipher, walk, failed_count,
                   output, output_file>>

\* main, fault-tolerant branch: the failed sessions file
WriteFailedDoc ==
    /\ pc = "failed_doc"
    /\ IF WritesFailedDoc(failed_sessions)
       THEN \E serialized \in BOOLEAN, written \in BOOLEAN :
              IF ~serialized
              THEN IoFail("Failed to serialize failed sessions")
                   /\ UNCHANGED failed_file
              ELSE IF ~written
              THEN IoFail("Failed to write failed sessions file")
                   /\ UNCHANGED failed_file
              ELSE /\ Continue("organize")
                   /\ failed_file' =
                        Some(FailedSessionsOutput(failed_count, failed_sessions))
       ELSE Continue("organize") /\ UNCHANGED failed_file
    /\ UNCHANGED <<args, effective_passphrase, store_cipher, walk, failed_count,
                   output, output_file>>

\* main: let output = organize_keys(keys, failed_count)
Organize ==
    /\ pc = "organize"
    /\ output' = Some(organize_keys(exported_keys, failed_count))
    /\ Continue("write_output")
    /\ UNCHANGED <<args, effective_passphrase, store_cipher, walk, failed_count,
                   failed_file, output_file>>

\* main: to_string_pretty, std::fs::write(&args.output), Ok(())
WriteOutput ==
    /\ pc = "write_output"
    /\ \E serialized \in BOOLEAN, written \in BOOLEAN :
         IF ~serialized
         THEN IoFail("Failed to serialize keys to JSON") /\ UNCHANGED output_file
         ELSE IF ~written
         THEN IoFail("Failed to write output file") /\ UNCHANGED output_file
         ELSE /\ pc' = "done"
              /\ exit_code' = Some(0)
              /\ output_file' = output
              /\ UNCHANGED error
    /\ UNCHANGED <<args, effective_passphrase, store_cipher, walk, failed_count,
                   failed_file, output>>

Next ==
    \/ CheckPath
    \/ FtOpenDb
    \/ FtLoadCipher
    \/ FtOpenTree
    \/ FtWalkEntry
    \/ FtReturn
    \/ StOpenDb
    \/ StOpenStore
    \/ StGetSessions
    \/ StExportSession
    \/ StReturn
    \/ WriteFailedDoc
    \/ Organize
    \/ WriteOutput

Spec == Init /\ [][Next]_vars

\* the run is a sequential program: it takes its next step as long as it has one
FairSpec == Spec /\ WF_vars(Next)

----------------------------------------------------------------------------
(* organize_keys on its own, on every sequence of exported keys *)

ExportedRoomKeys == [room_id : Rooms, session_id : 0 .. 1]

RECURSIVE SeqsUpTo(_, _)
SeqsUpTo(S, n) ==
    IF n = 0 THEN {<<>>}
    ELSE LET shorter == SeqsUpTo(S, n - 1)
         IN  shorter \cup {Append(q, x) : q \in shorter, x \in S}

InitOrganize ==
    /\ skip_errors = FALSE
    /\ passphrase = None
    /\ store_pass = None
    /\ tree = EmptyMap
    /\ \E keys \in SeqsUpTo(ExportedRoomKeys, MaxKeys), failed \in 0 .. 1 :
         Start(keys, failed, "organize")

SpecOrganize == InitOrganize /\ [][Organize]_vars

----------------------------------------------------------------------------
(* Vocabulary of the properties *)

Entries == TreeIter(tree)
NumEntries == Cardinality(DOMAIN tree)

\* encoding the values of this store have when they are intact
StoreEnc == IF store_pass = None THEN "json" ELSE "enc"

Unreadable(e) == ~e.item.read_ok
Undecodable(e) == e.item.read_ok /\ e.item.enc # StoreEnc
Unsound(e) == e.item.read_ok /\ e.item.enc = StoreEnc /\ ~e.item.pickle_ok
Valid(e) == e.item.read_ok /\ e.item.enc = StoreEnc /\ e.item.pickle_ok

\* the key record the output carries for a valid entry
KeyRecord(e) ==
    [room_id |-> "!" \o e.item.room_id.localpart \o ":" \o e.item.room_id.server_name,
     session_id |-> e.num]

RECURSIVE KeyRecords(_)
KeyRecords(es) ==
    IF es = <<>> THEN <<>>
    ELSE (IF Valid(Head(es)) THEN <<KeyRecord(Head(es))>> ELSE <<>>)
         \o KeyRecords(Tail(es))

SetupErrors == {"Sled store path does not exist",
                "Failed to open sled database",
                "sled get failed",
                "Failed to import store cipher - wrong passphrase?",
                "Failed to open inbound group sessions tree",
                "Failed to open Sled crypto store"}

SetupPcs == {"check_path", "ft_open_db", "ft_load_cipher", "ft_open_tree",
             "st_open_db", "st_open_store"}

AfterWalkPcs == {"failed_doc", "organize", "write_output", "done", "io_failed"}

NothingWritten == failed_file = None /\ output_file = None

----------------------------------------------------------------------------
(* C1 *)

\* C1: in fault-tolerant mode the output document, once built, has
\* total_keys + failed_keys equal to the number of entries the session tree
\* held at the start of the walk: every entry is counted once.
C1_CountsAddUp ==
    (skip_errors /\ IsSome(output)) =>
        /\ Unwrap(output).total_keys + Unwrap(output).failed_keys = NumEntries
        /\ Unwrap(output).total_keys = Len(SelectSeq(Entries, Valid))
        /\ NumEntries = total_entries

C1_Witness ==
    /\ skip_errors
    /\ pc = "done"
    /\ Unwrap(output_file).total_keys >= 1
    /\ Unwrap(output_file).failed_keys >= 2
    /\ \E i \in 1 .. Len(Entries) : Unreadable(Entries[i])
    /\ \E i \in 1 .. Len(Entries) : Unsound(Entries[i])

----------------------------------------------------------------------------
(* C2 *)

\* position (from 0) of the single undecodable entry, when the store holds
\* exactly one and all its other entries are valid
OneCorrupt(k) ==
    /\ k \in 0 .. (Len(Entries) - 1)
    /\ Undecodable(Entries[k + 1])
    /\ \A i \in 1 .. Len(Entries) : i # k + 1 => Valid(Entries[i])

\* C2: fault isolation.  In fault-tolerant mode, on a store of N entries of
\* which exactly the one at walk position K is undecodable, the run gets past
\* the walk with N-1 keys and one failure record, whose index is K; the output
\* document reports total_keys = N-1 and failed_keys = 1 and carries the keys
\* of all the other entries, those after K included.
C2_FaultIsolation ==
    \A k \in KeySpace :
        (skip_errors /\ OneCorrupt(k)) =>
            /\ pc \in AfterWalkPcs =>
                 /\ Len(exported_keys) = NumEntries - 1
                 /\ Len(failed_sessions) = 1
                 /\ failed_sessions[1].index = k
            /\ IsSome(output) =>
                 /\ Unwrap(output).total_keys = NumEntries - 1
                 /\ Unwrap(output).failed_keys = 1
                 /\ Unwrap(output).all_keys = KeyRecords(Entries)
            /\ pc = "aborted" => index = 0 /\ error[1] \in SetupErrors

C2_Witness ==
    /\ skip_errors
    /\ pc = "done"
    /\ NumEntries = NumKeys
    /\ OneCorrupt(0)
    /\ Unwrap(output_file).total_keys = NumEntries - 1
    /\ Unwrap(failed_file).sessions[1].index = 0

----------------------------------------------------------------------------
(* C3 *)

\* C3: in strict mode any entry that cannot be decoded, decrypted or
\* reconstructed aborts the run: no key is exported, no document is written
\* and the process exits non-zero.
C3_StrictAbortsOnAnyFailure ==
    (/\ ~skip_errors
     /\ \E i \in 1 .. Len(Entries) : Undecodable(Entries[i]) \/ Unsound(Entries[i])
     /\ pc \notin SetupPcs \cup {"st_get_sessions"}) =>
        /\ pc = "aborted"
        /\ exit_code = Some(1)
        /\ exported_keys = <<>>
        /\ NothingWritten

----------------------------------------------------------------------------
(* C4 *)

\* the passphrase the run uses does not open the store's cipher blob
WrongPassphrase ==
    /\ IsSome(store_pass)
    /\ IsSome(effective_passphrase)
    /\ effective_passphrase # store_pass

\* C4: setup failures are fatal and come before the walk.  An aborted run has
\* processed no entry, has written neither document and exits non-zero; a
\* run with the wrong passphrase for the cipher blob never gets past the
\* loading of the cipher; a missing path, a store, cipher or tree that does
\* not open abort the run; and the run aborts only from its setup, never
\* once the walk has started.
C4_SetupFailuresAbort ==
    /\ [](pc = "aborted" =>
            /\ exit_code = Some(1)
            /\ IsSome(error)
            /\ index = 0
            /\ exported_keys = <<>>
            /\ failed_sessions = <<>>
            /\ output = None
            /\ NothingWritten)
    /\ []((IsSome(error) /\ Unwrap(error) \in SetupErrors) => pc = "aborted")
    /\ [](WrongPassphrase =>
            pc \in {"ft_load_cipher", "st_open_store", "aborted"})
    /\ [][pc' = "aborted" /\ pc # "aborted" =>
            /\ pc \in SetupPcs \cup {"st_get_sessions"}
            /\ skip_errors => (pc \in SetupPcs /\ Unwrap(error') \in SetupErrors)]_vars

C4_Witness ==
    /\ skip_errors
    /\ pc = "aborted"
    /\ WrongPassphrase
    /\ error = Some("Failed to import store cipher - wrong passphrase?")
    /\ NumEntries >= 2

----------------------------------------------------------------------------
(* C5 *)

RECURSIVE SumOfLens(_, _)
SumOfLens(f, D) ==
    IF D = {} THEN 0
    ELSE LET r == CHOOSE r \in D : TRUE
         IN  Len(f[r]) + SumOfLens(f, D \ {r})

\* how many times x occurs in the sequence q
Occurrences(q, x) == Cardinality({i \in 1 .. Len(q) : q[i] = x})

\* C5: grouping invariant of organize_keys, for every sequence of exported
\* keys: total_keys = len(all_keys) = sum of the bucket lengths; all_keys holds
\* one record per exported key, in order; every key of all_keys is in the
\* bucket of its own room_id, as often as in all_keys, and in no other bucket;
\* no bucket is empty or holds a key that is not in all_keys.
C5_Grouping ==
    IsSome(output) =>
        LET doc == Unwrap(output)
            buckets == doc.keys_by_room
        IN  /\ doc.total_keys = Len(doc.all_keys)
            /\ doc.total_keys = SumOfLens(buckets, DOMAIN buckets)
            /\ Len(doc.all_keys) = Len(exported_keys)
            /\ \A i \in 1 .. Len(doc.all_keys) :
                 /\ doc.all_keys[i].session_id = exported_keys[i].session_id
                 /\ doc.all_keys[i].room_id \in DOMAIN buckets
                 /\ \A r \in DOMAIN buckets :
                      Occurrences(buckets[r], doc.all_keys[i]) =
                        IF r = doc.all_keys[i].room_id
                        THEN Occurrences(doc.all_keys, doc.all_keys[i])
                        ELSE 0
            /\ \A r \in DOMAIN buckets :
                 /\ buckets[r] # <<>>
                 /\ \A j \in 1 .. Len(buckets[r]) :
                      /\ buckets[r][j].room_id = r
                      /\ Occurrences(doc.all_keys, buckets[r][j]) > 0

C5_Witness ==
    /\ IsSome(output)
    /\ Len(exported_keys) = MaxKeys
    /\ Cardinality(DOMAIN Unwrap(output).keys_by_room) = 2
    /\ \E r \in DOMAIN Unwrap(output).keys_by_room :
         Len(Unwrap(output).keys_by_room[r]) >= 2

----------------------------------------------------------------------------
(* C6 *)

\* C6: the failure document is written only in fault-tolerant mode and only
\* when at least one entry failed; its total_failed is the length of its
\* sessions list and equals failed_keys of the output document of the run;
\* failed_keys is 0 in every strict-mode output.
C6_FailureDocument ==
    /\ IsSome(failed_file) =>
         /\ skip_errors
         /\ failed_sessions # <<>>
         /\ Unwrap(failed_file).total_failed = Len(Unwrap(failed_file).sessions)
         /\ Unwrap(failed_file).sessions = failed_sessions
    /\ (IsSome(failed_file) /\ IsSome(output)) =>
         Unwrap(output).failed_keys = Unwrap(failed_file).total_failed
    /\ (IsSome(failed_file) /\ IsSome(output_file)) =>
         Unwrap(output_file).failed_keys = Unwrap(failed_file).total_failed
    /\ (~skip_errors /\ IsSome(output)) => Unwrap(output).failed_keys = 0

C6_Witness ==
    /\ pc = "done"
    /\ IsSome(failed_file)
    /\ IsSome(output_file)
    /\ Unwrap(output_file).failed_keys = 2

----------------------------------------------------------------------------
(* C7 *)

IoErrors == {"Failed to serialize failed sessions",
             "Failed to write failed sessions file",
             "Failed to serialize keys to JSON",
             "Failed to write output file"}

Walking == skip_errors /\ pc = "ft_walk"

\* C7 as stated: in fault-tolerant mode a run whose setup succeeded ends
\* having enumerated every entry, with the output document written and exit
\* status 0, whatever entries failed.
C7_AlwaysSucceeds ==
    (skip_errors /\ IsSome(exit_code) /\ pc # "aborted") =>
        /\ pc = "done"
        /\ index = NumEntries
        /\ IsSome(output_file)
        /\ exit_code = Some(0)

\* C7 amended: in fault-tolerant mode, once setup has succeeded no failure of
\* an entry aborts the walk: the run enumerates every entry and then either
\* reaches done, with the output document written and exit status 0, or ends
\* non-zero because serialising or writing one of the two documents failed.
C7_WalkCompletes ==
    /\ Walking ~> (pc \in {"done", "io_failed"})
    /\ [](skip_errors /\ pc \in AfterWalkPcs =>
            /\ index = NumEntries
            /\ Len(exported_keys) + Len(failed_sessions) = NumEntries)
    /\ [](skip_errors /\ pc = "done" =>
            /\ IsSome(output_file)
            /\ Unwrap(output_file).all_keys = KeyRecords(Entries)
            /\ exit_code = Some(0)
            /\ error = None)
    /\ [](pc = "io_failed" =>
            /\ exit_code = Some(1)
            /\ output_file = None
            /\ Unwrap(error) \in IoErrors)
    /\ [][Walking => pc' # "aborted"]_vars

\* every entry of a full store fails, and the run still completes
C7_Witness ==
    /\ skip_errors
    /\ pc = "done"
    /\ NumEntries = NumKeys
    /\ Len(failed_sessions) = NumEntries
    /\ Unwrap(output_file).total_keys = 0
    /\ exit_code = Some(0)

----------------------------------------------------------------------------
(* C8 *)

\* the run has loaded the store's cipher with its effective passphrase
CipherLoaded ==
    pc \notin {"check_path", "ft_open_db", "ft_load_cipher", "st_open_db",
               "st_open_store", "aborted"}

\* C8 as stated: an absent passphrase is a value of its own, not the same
\* effective passphrase as the explicitly empty one.
C8_AbsentDiffersFromEmpty ==
    (passphrase = None /\ IsSome(effective_passphrase)) =>
        effective_passphrase # Some("")

\* C8 amended: an absent passphrase and an empty one are both valid and are
\* the same configuration: in both modes the effective passphrase of an
\* absent passphrase is the empty string, a given passphrase is used as given,
\* and with either of the two a store whose cipher was sealed with the empty
\* passphrase is opened, one sealed with another passphrase is not.
C8_AbsentIsEmpty ==
    /\ IsSome(effective_passphrase) =>
         /\ passphrase = None => effective_passphrase = Some("")
         /\ passphrase # None => effective_passphrase = passphrase
    /\ (passphrase \in {None, Some("")} /\ IsSome(store_pass) /\ CipherLoaded) =>
         /\ store_pass = Some("")
         /\ IsSome(store_cipher)

C8_Witness ==
    /\ passphrase = None
    /\ store_pass = Some("")
    /\ IsSome(store_cipher)
    /\ pc = "done"
    /\ Unwrap(output_file).total_keys >= 1

----------------------------------------------------------------------------
(* C9 *)

WalkStarted == skip_errors /\ pc \in {"ft_walk"} \cup AfterWalkPcs

\* the entries the walk has gone through
Walked == SubSeq(Entries, 1, index)

RecordsOf(i) == {j \in 1 .. Len(failed_sessions) : failed_sessions[j].index = i}

\* C9: failure records of the fault-tolerant walk.  Every failed entry has
\* exactly one record, whose index is the entry's position in the walk counted
\* from 0 over all entries; the records are in encounter order, their indices
\* strictly increasing; key_hex is "<read error>" exactly for a failed read
\* and the hex encoding of the raw key otherwise; a failed entry adds no key
\* and a successful entry adds no record.
C9_FailureRecords ==
    WalkStarted =>
        /\ \A i \in 0 .. (index - 1) :
             Cardinality(RecordsOf(i)) = IF Valid(Entries[i + 1]) THEN 0 ELSE 1
        /\ \A j \in 1 .. Len(failed_sessions) :
             LET rec == failed_sessions[j]
             IN  /\ rec.index \in 0 .. (index - 1)
                 /\ (rec.key_hex = "<read error>") <=> Unreadable(Entries[rec.index + 1])
                 /\ ~Unreadable(Entries[rec.index + 1]) =>
                      rec.key_hex = HexEncode(Entries[rec.index + 1].key)
                 /\ \A k \in 1 .. (j - 1) : failed_sessions[k].index < rec.index
        /\ Len(exported_keys) = Len(SelectSeq(Walked, Valid))
        /\ \A j \in 1 .. Len(exported_keys) :
             exported_keys[j].session_id = SelectSeq(Walked, Valid)[j].num
        /\ fail_count = Len(failed_sessions)
        /\ success_count = Len(exported_keys)

\* a read error, a key, then a decode failure: indices 0 and 2, sentinel and hex
C9_Witness ==
    /\ skip_errors
    /\ index = 3
    /\ Len(failed_sessions) = 2
    /\ failed_sessions[1] = [index |-> 0, key_hex |-> "<read error>",
                            error |-> "Sled read error"]
    /\ failed_sessions[2].index = 2
    /\ failed_sessions[2].key_hex = "02b1"
    /\ Len(exported_keys) = 1

----------------------------------------------------------------------------
(* C10 *)

\* C10: order of the two writes in fault-tolerant mode.  The failure document
\* is written before the output document, and the output document is written
\* only after that write succeeded: an output document that reports
\* failed_keys > 0 comes with the failure document of the run, and the failure
\* document is never written once the output document is.
C10_WriteOrder ==
    /\ []((IsSome(output_file) /\ Unwrap(output_file).failed_keys > 0) =>
            IsSome(failed_file))
    /\ []((skip_errors /\ failed_sessions # <<>> /\ pc \in {"organize", "write_output", "done"})
            => IsSome(failed_file))
    /\ [][failed_file' # failed_file => (output_file = None /\ output_file' = None)]_vars
    /\ [][output_file' # output_file =>
            (skip_errors /\ failed_sessions # <<>> => IsSome(failed_file))]_vars

\* the failure document is on disk and the run ended without an output document
C10_Witness ==
    /\ pc = "io_failed"
    /\ IsSome(failed_file)
    /\ output_file = None
    /\ Unwrap(error) \in {"Failed to serialize keys to JSON",
                          "Failed to write output file"}

====
